---- MODULE Spec2Model ----
(***************************************************************************)
(* Model of lib/sqlalchemy/dialects/mysql/gaerdbms.py, the Google Cloud    *)
(* SQL dialect (mysql+gaerdbms).                                           *)
(*                                                                         *)
(* Representation of Python values:                                        *)
(*   - a str that the code inspects character by character (the value of   *)
(*     SERVER_SOFTWARE, the text of an exception) is a sequence of         *)
(*     one-character strings;                                              *)
(*   - a byte string handed to Str2Unicode is a sequence of integers in    *)
(*     0..255, a unicode string is a sequence of code points;              *)
(*   - a str the code only copies (host, instance name, dsn) is a string;  *)
(*   - a dict is a function whose DOMAIN is its key set;                   *)
(*   - an optional value is None or Some(v).                               *)
(***************************************************************************)
EXTENDS Integers, Sequences, FiniteSets, TLC

VARIABLES
    environ,        \* os.environ, restricted to the keys the module reads
    apiproxy,       \* apiproxy_stub_map.apiproxy: service name -> stub
    CONVERTERS,     \* the module-level converter table
    ret,            \* the last operation performed, its inputs and result
    selected,       \* the module returned by the most recent dbapi() call
    connArgs,       \* the result of the most recent create_connect_args()
    chgSinceDbapi,  \* environ was written after the most recent dbapi()
    chgSinceArgs,   \* environ was written after the most recent
                    \* create_connect_args()
    chgBetween,     \* environ was written between the most recent dbapi()
                    \* and the most recent create_connect_args()
    mismatchSeen    \* some pair of calls produced a client and arguments
                    \* that do not belong together

vars == <<environ, apiproxy, CONVERTERS, ret, selected, connArgs,
          chgSinceDbapi, chgSinceArgs, chgBetween, mismatchSeen>>

-----------------------------------------------------------------------------
(* Python helpers *)

None == [none |-> TRUE]

Some(v) == [none |-> FALSE, val |-> v]

\* d[k] = v on a dict
DictSet(d, k, v) == [x \in (DOMAIN d) \cup {k} |-> IF x = k THEN v ELSE d[x]]

\* d.get(k, default)
DictGet(d, k, default) == IF k \in DOMAIN d THEN d[k] ELSE default

\* s.startswith(prefix)
startswith(s, prefix) ==
    /\ Len(s) >= Len(prefix)
    /\ SubSeq(s, 1, Len(prefix)) = prefix

\* all sequences over S of length at most n
SeqsUpTo(S, n) == UNION {[1..k -> S] : k \in 0..n}

-----------------------------------------------------------------------------
(* _is_dev_environment *)

DevPrefix == <<"D","e","v","e","l","o","p","m","e","n","t","/">>

\* mutant: substring test instead of prefix test
is_dev_environment_contains(env) ==
    LET v == DictGet(env, "SERVER_SOFTWARE", <<>>)
    IN  \E i \in 1..Len(v) :
            /\ i + Len(DevPrefix) - 1 <= Len(v)
            /\ SubSeq(v, i, i + Len(DevPrefix) - 1) = DevPrefix

\* os.environ.get('SERVER_SOFTWARE', '').startswith('Development/')
is_dev_environment(env) ==
    startswith(DictGet(env, "SERVER_SOFTWARE", <<>>), DevPrefix)

-----------------------------------------------------------------------------
(* MySQLDialect_gaerdbms.dbapi *)

\* apiproxy_stub_map.apiproxy.GetStub(service): the stub, or None
GetStub(registry, service) ==
    IF service \in DOMAIN registry THEN Some(registry[service]) ELSE None

\* truth value of what GetStub returned: None is false, and so is a stub
\* object that is false itself (written "" here)
StubTrue(stub) == ~stub.none /\ stub.val # ""

\* mutant: the stub registry is consulted before the environment
dbapi_stub_first(env, registry) ==
    IF StubTrue(GetStub(registry, "rdbms")) THEN "rdbms_apiproxy"
    ELSE IF is_dev_environment(env) THEN "rdbms_mysqldb"
    ELSE "rdbms_googleapi"

\* if _is_dev_environment(): ...
\* elif apiproxy_stub_map.apiproxy.GetStub('rdbms'): ...   (a truth test)
\* else: ...
dbapi(env, registry) ==
    IF is_dev_environment(env) THEN "rdbms_mysqldb"
    ELSE IF StubTrue(GetStub(registry, "rdbms")) THEN "rdbms_apiproxy"
    ELSE "rdbms_googleapi"

-----------------------------------------------------------------------------
(* MySQLDialect_gaerdbms.get_pool_class *)

\* mutant: pooling is switched off only when the URL asks for it
get_pool_class_by_url(url) ==
    IF "poolclass" \in DOMAIN url.query THEN "NullPool" ELSE "QueuePool"

get_pool_class(url) == "NullPool"

-----------------------------------------------------------------------------
(* CONVERTERS: the table as the module body builds it at import.  Keys and *)
(* values are the names the source uses for them.                          *)

ConvertersAtImport ==
    [k \in {"types.IntType", "types.LongType", "types.FloatType",
            "types.StringType", "converters.Blob"} |-> "converters.Any2Str"]
    @@ [k \in {"types.TupleType"} |-> "converters.Tuple2Str"]
    @@ [k \in {"types.BooleanType"} |-> "converters.Bool2Str"]
    @@ [k \in {"types.UnicodeType"} |-> "converters.Unicode2Str"]
    @@ [k \in {"datetime.date"} |-> "converters.Date2Str"]
    @@ [k \in {"datetime.datetime"} |-> "converters.Datetime2Str"]
    @@ [k \in {"datetime.time"} |-> "converters.Time2Str"]
    @@ [k \in {"jdbc_type.BIT", "jdbc_type.SMALLINT", "jdbc_type.INTEGER",
               "jdbc_type.BIGINT", "jdbc_type.TINYINT"} |-> "int"]
    @@ [k \in {"jdbc_type.REAL", "jdbc_type.DOUBLE", "jdbc_type.NUMERIC",
               "jdbc_type.DECIMAL", "jdbc_type.FLOAT"} |-> "float"]
    @@ [k \in {"jdbc_type.CHAR", "jdbc_type.VARCHAR",
               "jdbc_type.LONGVARCHAR", "jdbc_type.CLOB", "jdbc_type.NCLOB",
               "jdbc_type.NCHAR", "jdbc_type.NVARCHAR",
               "jdbc_type.LONGNVARCHAR", "jdbc_type.ARRAY", "jdbc_type.NULL",
               "jdbc_type.OTHER", "jdbc_type.JAVA_OBJECT",
               "jdbc_type.DISTINCT", "jdbc_type.STRUCT", "jdbc_type.REF",
               "jdbc_type.DATALINK", "jdbc_type.BOOLEAN", "jdbc_type.ROWID",
               "jdbc_type.SQLXML"} |-> "Str2Unicode"]
    @@ [k \in {"jdbc_type.DATE"} |-> "converters.Str2Date"]
    @@ [k \in {"jdbc_type.TIME"} |-> "converters.Str2Time"]
    @@ [k \in {"jdbc_type.TIMESTAMP"} |-> "converters.Str2Datetime"]
    @@ [k \in {"jdbc_type.BINARY", "jdbc_type.VARBINARY",
               "jdbc_type.LONGVARBINARY", "jdbc_type.BLOB"}
           |-> "converters.Blob"]

-----------------------------------------------------------------------------
(* MySQLDialect_gaerdbms.create_connect_args *)

\* A URL is [attrs |-> dict of the attributes that are not None,
\*           query |-> dict of the query string].
attribute_names == {"host", "database", "username", "password", "port"}

\* truth value of a URL attribute: a missing one, an empty string and
\* port 0 are false
Truthy(url, sname) ==
    /\ sname \in DOMAIN url.attrs
    /\ IF sname = "port" THEN url.attrs[sname] # 0 ELSE url.attrs[sname] # ""

\* url.translate_connect_args() called without names: every attribute of
\* the URL that is set, under its own name
translate_connect_args(url) ==
    [sname \in {a \in attribute_names : Truthy(url, a)} |-> url.attrs[sname]]

\* The result of a call: what it raised (or "none"), the value it returned
\* and the module-level table as the call left it.
Returned(args, opts, conv) ==
    [raised |-> "none", args |-> args, opts |-> opts, CONVERTERS |-> conv]

Raised(exc, conv) == [raised |-> exc, CONVERTERS |-> conv]

\* mutant: the three keys are added in the sandbox instead of outside it
create_connect_args_inverted(url, env, conv) ==
    LET opts == translate_connect_args(url)
    IN  IF is_dev_environment(env)
        THEN IF "instance" \notin DOMAIN url.query
             THEN Raised("KeyError", conv)
             ELSE Returned(<<>>,
                      DictSet(DictSet(DictSet(opts, "dsn", ""),
                          "instance", url.query["instance"]), "conv", conv),
                      conv)
        ELSE Returned(<<>>, opts, conv)

\* mutant: a missing instance is defaulted instead of looked up
create_connect_args_get(url, env, conv) ==
    LET opts == translate_connect_args(url)
    IN  IF ~is_dev_environment(env)
        THEN Returned(<<>>,
                 DictSet(DictSet(DictSet(opts, "dsn", ""),
                     "instance", DictGet(url.query, "instance", "")),
                     "conv", conv),
                 conv)
        ELSE Returned(<<>>, opts, conv)

\* mutant: the data source name is taken from the database name
create_connect_args_dsn(url, env, conv) ==
    LET opts == translate_connect_args(url)
    IN  IF ~is_dev_environment(env)
        THEN IF "instance" \notin DOMAIN url.query
             THEN Raised("KeyError", conv)
             ELSE Returned(<<>>,
                      DictSet(DictSet(DictSet(opts, "dsn",
                          DictGet(opts, "database", "")),
                          "instance", url.query["instance"]), "conv", conv),
                      conv)
        ELSE Returned(<<>>, opts, conv)

\* mutant: the instance is looked up before the environment is tested
create_connect_args_eager(url, env, conv) ==
    LET opts == translate_connect_args(url)
    IN  IF "instance" \notin DOMAIN url.query
        THEN Raised("KeyError", conv)
        ELSE IF ~is_dev_environment(env)
        THEN Returned(<<>>,
                 DictSet(DictSet(DictSet(opts, "dsn", ""),
                     "instance", url.query["instance"]), "conv", conv),
                 conv)
        ELSE Returned(<<>>, opts, conv)

\* mutant: the instance is recorded in the shared table as well
create_connect_args_writes(url, env, conv) ==
    LET opts == translate_connect_args(url)
    IN  IF ~is_dev_environment(env)
        THEN IF "instance" \notin DOMAIN url.query
             THEN Raised("KeyError", conv)
             ELSE LET conv2 == DictSet(conv, "instance", url.query["instance"])
                  IN  Returned(<<>>,
                          DictSet(DictSet(DictSet(opts, "dsn", ""),
                              "instance", url.query["instance"]),
                              "conv", conv2),
                          conv2)
        ELSE Returned(<<>>, opts, conv)

\* opts = url.translate_connect_args(); outside the sandbox opts['dsn'],
\* opts['instance'] and opts['conv'] are assigned in this order, and
\* url.query['instance'] raises KeyError when the key is missing;
\* return [], opts.  conv is the module-level CONVERTERS at the call.
create_connect_args(url, env, conv) ==
    LET opts == translate_connect_args(url)
    IN  IF ~is_dev_environment(env)
        THEN IF "instance" \notin DOMAIN url.query
             THEN Raised("KeyError", conv)
             ELSE Returned(<<>>,
                      DictSet(DictSet(DictSet(opts, "dsn", ""),
                          "instance", url.query["instance"]), "conv", conv),
                      conv)
        ELSE Returned(<<>>, opts, conv)

-----------------------------------------------------------------------------
(* MySQLDialect_gaerdbms._extract_error_code *)

Digits == {"0", "1", "2", "3", "4", "5", "6", "7", "8", "9"}

DigitValue(c) ==
    CASE c = "0" -> 0 [] c = "1" -> 1 [] c = "2" -> 2 [] c = "3" -> 3
      [] c = "4" -> 4 [] c = "5" -> 5 [] c = "6" -> 6 [] c = "7" -> 7
      [] c = "8" -> 8 [] c = "9" -> 9

\* int(code) for a string of decimal digits
RECURSIVE int(_)
int(code) ==
    IF code = <<>> THEN 0
    ELSE 10 * int(SubSeq(code, 1, Len(code) - 1)) + DigitValue(code[Len(code)])

\* s has exactly the characters of lit at positions i .. i+Len(lit)-1
LitAt(s, i, lit) ==
    /\ i + Len(lit) - 1 <= Len(s)
    /\ SubSeq(s, i, i + Len(lit) - 1) = lit

\* (\d+)L?<term> tried at position i: the regex engine takes the longest
\* run of digits first and gives digits back until the rest matches.
\* The captured group, or None when no split matches.
DigitsThen(s, i, term) ==
    LET ks == {k \in 1..Len(s) :
                  /\ i + k - 1 <= Len(s)
                  /\ \A j \in i..(i + k - 1) : s[j] \in Digits
                  /\ \/ LitAt(s, i + k, <<term>>)
                     \/ LitAt(s, i + k, <<"L", term>>)}
    IN  IF ks = {} THEN None
        ELSE LET k == CHOOSE x \in ks : \A y \in ks : y <= x
             IN  Some(SubSeq(s, i, i + k - 1))

\* re.compile(r"^(\d+)L?:|^\((\d+)L?,").match(s): None, or the two groups
\* (the group of the alternative that did not take part is None)
re_match(s) ==
    LET g1 == DigitsThen(s, 1, ":")
        g2 == IF LitAt(s, 1, <<"(">>) THEN DigitsThen(s, 2, ",") ELSE None
    IN  IF ~g1.none THEN Some([group1 |-> g1, group2 |-> None])
        ELSE IF ~g2.none THEN Some([group1 |-> None, group2 |-> g2])
        ELSE None

\* truth value of a group: None and the empty string are false
GroupTrue(g) == ~g.none /\ g.val # <<>>

\* An exception with one argument is [unicode |-> whether the argument is
\* a unicode object, text |-> its characters]; a character outside ASCII
\* is written as its code point, "U+00E9".
NonAscii == {"U+00E8", "U+00E9"}

\* str(exception): the argument itself when it is a str; a unicode
\* argument is encoded with the ascii codec, which raises
\* UnicodeEncodeError at the first character outside ASCII.  Some(text),
\* or None when str() raised.
str(exception) ==
    IF exception.unicode
       /\ \E i \in 1..Len(exception.text) : exception.text[i] \in NonAscii
    THEN None
    ELSE Some(exception.text)

\* the outcome of a call: the exception it raised, or the value it returned
Return(v) == [raised |-> "none", out |-> v]

Raise(exc) == [raised |-> exc]

\* match = re.compile(...).match(str(exception))   (str() may raise)
\* code = match.group(1) or match.group(2) if match else None
\* if code: return int(code)          (otherwise the method returns None)
extract_error_code(exception) ==
    LET s == str(exception)
    IN  IF s.none THEN Raise("UnicodeEncodeError")
        ELSE LET match == re_match(s.val)
                 code == IF ~match.none
                         THEN (IF GroupTrue(match.val.group1)
                               THEN match.val.group1 ELSE match.val.group2)
                         ELSE None
             IN  IF GroupTrue(code) THEN Return(Some(int(code.val)))
                 ELSE Return(None)

-----------------------------------------------------------------------------
(* Str2Unicode *)

IsCont(b) == b \in 128..191

\* The length of the UTF-8 sequence that starts at position i of arg, or 0
\* when no well-formed sequence starts there: a lead byte C2..DF, E0..EF
\* or F0..F4 followed by its continuation bytes, shortest form only, no
\* code point above U+10FFFF (the codec of Python 2, the language of the
\* source, which also decodes the three-byte forms of U+D800..U+DFFF).
Utf8SeqLen(arg, i) ==
    LET b == arg[i]
        at(j) == IF j <= Len(arg) THEN arg[j] ELSE 0
    IN  IF b < 128 THEN 1
        ELSE IF b \in 194..223 /\ IsCont(at(i + 1)) THEN 2
        ELSE IF /\ b \in 224..239
                /\ IsCont(at(i + 1)) /\ IsCont(at(i + 2))
                /\ (b = 224 => at(i + 1) >= 160)
             THEN 3
        ELSE IF /\ b \in 240..244
                /\ IsCont(at(i + 1)) /\ IsCont(at(i + 2)) /\ IsCont(at(i + 3))
                /\ (b = 240 => at(i + 1) >= 144)
                /\ (b = 244 => at(i + 1) <= 143)
             THEN 4
        ELSE 0

\* the code point of the well-formed sequence of length n at position i
Utf8CodePoint(arg, i, n) ==
    CASE n = 1 -> arg[i]
      [] n = 2 -> (arg[i] - 192) * 64 + (arg[i + 1] - 128)
      [] n = 3 -> (arg[i] - 224) * 4096 + (arg[i + 1] - 128) * 64
                  + (arg[i + 2] - 128)
      [] n = 4 -> (arg[i] - 240) * 262144 + (arg[i + 1] - 128) * 4096
                  + (arg[i + 2] - 128) * 64 + (arg[i + 3] - 128)

\* unicode(arg, 'utf-8') from position i on: Some(code points), or None
\* for UnicodeDecodeError
RECURSIVE utf8_from(_, _)
utf8_from(arg, i) ==
    IF i > Len(arg) THEN Some(<<>>)
    ELSE LET n == Utf8SeqLen(arg, i)
         IN  IF n = 0 THEN None
             ELSE LET rest == utf8_from(arg, i + n)
                  IN  IF rest.none THEN None
                      ELSE Some(<<Utf8CodePoint(arg, i, n)>> \o rest.val)

unicode_utf8(arg) == utf8_from(arg, 1)

\* unicode(arg, 'latin-1'): byte b is code point b; UnicodeDecodeError
\* only for a value that is no byte
unicode_latin1(arg) ==
    IF \A i \in 1..Len(arg) : arg[i] \in 0..255 THEN Some(arg) ELSE None

\* the str "[ERROR]" as code points
ErrorSentinel == <<91, 69, 82, 82, 79, 82, 93>>

\* mutant: Latin-1 is tried before UTF-8
Str2Unicode_latin1_first(arg) ==
    LET l == unicode_latin1(arg)
    IN  IF ~l.none THEN l.val
        ELSE LET u == unicode_utf8(arg)
             IN  IF ~u.none THEN u.val ELSE ErrorSentinel

\* try: return unicode(arg, 'utf-8')
\* except UnicodeDecodeError:
\*     try: return unicode(arg, 'latin-1')
\*     except UnicodeDecodeError: return "[ERROR]"
Str2Unicode(arg) ==
    LET u == unicode_utf8(arg)
    IN  IF ~u.none THEN u.val
        ELSE LET l == unicode_latin1(arg)
             IN  IF ~l.none THEN l.val ELSE ErrorSentinel

-----------------------------------------------------------------------------
(* Inputs *)

MaxLen == 4

MaxBytes == 3

\* values of SERVER_SOFTWARE
ServerSoftwareValues ==
    { <<>>,
      DevPrefix,
      DevPrefix \o <<"1", ".", "0">>,
      SubSeq(DevPrefix, 1, Len(DevPrefix) - 1),
      <<"d">> \o Tail(DevPrefix),
      <<"x">> \o DevPrefix,
      <<"G", "o", "o", "g", "l", "e", " ", "A", "p", "p", " ", "E", "n", "g", "i", "n", "e", "/">> \o DevPrefix,
      <<"G", "o", "o", "g", "l", "e", " ", "A", "p", "p", " ", "E", "n", "g", "i", "n", "e", "/">> }

\* os.environ with the variable absent, or set to one of the values
Environs ==
    {[k \in {} |-> <<>>]}
    \cup {[k \in {"SERVER_SOFTWARE"} |-> v] : v \in ServerSoftwareValues}

\* stub registries: any set of these services has a stub registered
Services == {"rdbms", "memcache"}

\* a registered stub is an object that is true ("stub"); for 'rdbms' the
\* registry may also hold an object that is false ("")
StubObjects(service) == IF service = "rdbms" THEN {"stub", ""} ELSE {"stub"}

Registries ==
    UNION {{r \in [S -> {"stub", ""}] : \A x \in S : r[x] \in StubObjects(x)} :
              S \in SUBSET Services}

NoQuery == [k \in {} |-> ""]

\* parsed URLs: mysql+gaerdbms:///db?instance=X and variations
URLs ==
    { [attrs |-> [database |-> "db"], query |-> [instance |-> "X"]],
      [attrs |-> [database |-> "db"], query |-> NoQuery],
      [attrs |-> [database |-> "db", host |-> ""],
       query |-> [poolclass |-> "QueuePool"]],
      [attrs |-> [database |-> "db", host |-> "h", username |-> "u",
                  password |-> "p", port |-> 3306],
       query |-> [instance |-> "proj:inst", charset |-> "utf8"]],
      [attrs |-> [username |-> "u", port |-> 0],
       query |-> [instance |-> ""]] }

ErrChars == {"0", "1", "L", ":", "(", ",", "x"}

AccessDenied == <<"1", "0", "4", "5", ":", " ", "A", "c", "c", "e", "s", "s", " ", "d", "e", "n", "i", "e", "d">>

DuplicateEntry == <<"(", "1", "0", "6", "2", ",", " ", "'", "D", "u", "p", "l", "i", "c", "a", "t", "e", " ", "e", "n", "t", "r", "y", "'", ")">>

Rewrapped == <<"S", "o", "m", "e", " ", "u", "n", "r", "e", "l", "a", "t", "e", "d", " ", "r", "e", "w", "r", "a", "p", "p", "e", "d", " ", "m", "e", "s", "s", "a", "g", "e">>

\* the texts of the exceptions handed to _extract_error_code
ExceptionStrings ==
    SeqsUpTo(ErrChars, MaxLen) \cup {AccessDenied, DuplicateEntry, Rewrapped}

\* u'1045: Acc\xe8s refus\xe9' and u'\xe9 1045:'
AccesRefuse ==
    <<"1", "0", "4", "5", ":", " ", "A", "c", "c", "U+00E8", "s", " ",
      "r", "e", "f", "u", "s", "U+00E9">>

AccentFirst == <<"U+00E9", " ", "1", "0", "4", "5", ":">>

UnicodeStrings ==
    {AccessDenied, DuplicateEntry, AccesRefuse, AccentFirst}
    \cup SeqsUpTo({"1", ":", "U+00E9"}, MaxLen - 1)

\* the exceptions: Exception('...') and Exception(u'...')
Exceptions ==
    {[unicode |-> FALSE, text |-> t] : t \in ExceptionStrings}
    \cup {[unicode |-> TRUE, text |-> t] : t \in UnicodeStrings}

\* the exceptions used when the extractor is called between the other
\* operations
ExceptionSamples ==
    {[unicode |-> FALSE, text |-> t] :
        t \in {AccessDenied, DuplicateEntry, Rewrapped}}
    \cup {[unicode |-> TRUE, text |-> AccesRefuse]}

\* bytes: 'A', two continuation bytes, the lead bytes C3, E0 and E2, and FF
Bytes == {65, 130, 172, 195, 224, 226, 255}

ByteStrings == SeqsUpTo(Bytes, MaxBytes)

-----------------------------------------------------------------------------
(* State after import, and the operations *)

Init ==
    /\ environ \in Environs
    /\ apiproxy \in Registries
    /\ CONVERTERS = ConvertersAtImport
    /\ ret = [op |-> "import"]
    /\ selected = None
    /\ connArgs = None
    /\ chgSinceDbapi = FALSE
    /\ chgSinceArgs = FALSE
    /\ chgBetween = FALSE
    /\ mismatchSeen = {}

\* The client module and the keyword arguments do not belong together:
\* the sandbox client with the three production keys, or a production
\* client without them.
ProductionKeys == {"dsn", "instance", "conv"}

Mismatch(sel, args) ==
    IF sel.none \/ args.none \/ args.val.raised # "none" THEN {}
    ELSE IF sel.val = "rdbms_mysqldb"
            /\ ProductionKeys \cap DOMAIN args.val.opts # {}
         THEN {"sandbox client, production arguments"}
    ELSE IF sel.val # "rdbms_mysqldb"
            /\ ~(ProductionKeys \subseteq DOMAIN args.val.opts)
         THEN {"production client, sandbox arguments"}
    ELSE {}

\* the process environment is written: os.environ['SERVER_SOFTWARE'] = v
\* or del os.environ['SERVER_SOFTWARE']
SetEnviron(e) ==
    /\ e # environ
    /\ environ' = e
    /\ ret' = [op |-> "environ"]
    /\ chgSinceDbapi' = TRUE
    /\ chgSinceArgs' = TRUE
    /\ UNCHANGED <<apiproxy, CONVERTERS, selected, connArgs, chgBetween,
                   mismatchSeen>>

\* a stub is registered with, or removed from, the stub registry
SetRegistry(r) ==
    /\ r # apiproxy
    /\ apiproxy' = r
    /\ ret' = [op |-> "apiproxy"]
    /\ UNCHANGED <<environ, CONVERTERS, selected, connArgs, chgSinceDbapi,
                   chgSinceArgs, chgBetween, mismatchSeen>>

\* _is_dev_environment()
CallIsDevEnvironment ==
    /\ ret' = [op |-> "_is_dev_environment", env |-> environ,
               raised |-> "none", out |-> is_dev_environment(environ)]
    /\ UNCHANGED <<environ, apiproxy, CONVERTERS, selected, connArgs,
                   chgSinceDbapi, chgSinceArgs, chgBetween, mismatchSeen>>

\* MySQLDialect_gaerdbms.dbapi()
CallDbapi ==
    LET module == dbapi(environ, apiproxy)
    IN  /\ selected' = Some(module)
        /\ ret' = [op |-> "dbapi", raised |-> "none", out |-> module]
        /\ chgSinceDbapi' = FALSE
        /\ chgBetween' = chgSinceArgs
        /\ mismatchSeen' = mismatchSeen \cup Mismatch(selected', connArgs)
        /\ UNCHANGED <<environ, apiproxy, CONVERTERS, connArgs, chgSinceArgs>>

\* MySQLDialect_gaerdbms.get_pool_class(url)
CallGetPoolClass(url) ==
    /\ ret' = [op |-> "get_pool_class", url |-> url, raised |-> "none",
               out |-> get_pool_class(url)]
    /\ UNCHANGED <<environ, apiproxy, CONVERTERS, selected, connArgs,
                   chgSinceDbapi, chgSinceArgs, chgBetween, mismatchSeen>>

\* dialect.create_connect_args(url)
CallCreateConnectArgs(url) ==
    LET r == create_connect_args(url, environ, CONVERTERS)
        res == IF r.raised = "none"
               THEN [raised |-> "none", args |-> r.args, opts |-> r.opts]
               ELSE [raised |-> r.raised]
    IN  /\ CONVERTERS' = r.CONVERTERS
        /\ connArgs' = Some(res)
        /\ ret' = [op |-> "create_connect_args", url |-> url, out |-> res]
        /\ chgSinceArgs' = FALSE
        /\ chgBetween' = chgSinceDbapi
        /\ mismatchSeen' = mismatchSeen \cup Mismatch(selected, connArgs')
        /\ UNCHANGED <<environ, apiproxy, selected, chgSinceDbapi>>

\* dialect._extract_error_code(exception)
CallExtractErrorCode(exception) ==
    /\ ret' = [op |-> "_extract_error_code", in |-> exception,
               out |-> extract_error_code(exception)]
    /\ UNCHANGED <<environ, apiproxy, CONVERTERS, selected, connArgs,
                   chgSinceDbapi, chgSinceArgs, chgBetween, mismatchSeen>>

\* Str2Unicode(arg), as the client calls it through the converter table
CallStr2Unicode(arg) ==
    /\ ret' = [op |-> "Str2Unicode", in |-> arg, raised |-> "none",
               out |-> Str2Unicode(arg)]
    /\ UNCHANGED <<environ, apiproxy, CONVERTERS, selected, connArgs,
                   chgSinceDbapi, chgSinceArgs, chgBetween, mismatchSeen>>

Next ==
    \/ \E e \in Environs : SetEnviron(e)
    \/ \E r \in Registries : SetRegistry(r)
    \/ CallIsDevEnvironment
    \/ CallDbapi
    \/ \E url \in URLs : CallGetPoolClass(url)
    \/ \E url \in URLs : CallCreateConnectArgs(url)
    \/ \E e \in ExceptionSamples : CallExtractErrorCode(e)

Spec == Init /\ [][Next]_vars

\* _extract_error_code over every exception of the input set
InitExtract ==
    /\ Init
    /\ environ = [k \in {} |-> <<>>]
    /\ apiproxy = [k \in {} |-> "stub"]

NextExtract ==
    \E e \in Exceptions : ret.op = "import" /\ CallExtractErrorCode(e)

SpecExtract == InitExtract /\ [][NextExtract]_vars

\* Str2Unicode over every byte string of the input set
NextStr2Unicode ==
    \E arg \in ByteStrings : ret.op = "import" /\ CallStr2Unicode(arg)

SpecStr2Unicode == InitExtract /\ [][NextStr2Unicode]_vars

-----------------------------------------------------------------------------
(* Properties *)

\* SERVER_SOFTWARE is set and its value is 'Development/' followed by
\* anything
InSandbox(env) ==
    /\ "SERVER_SOFTWARE" \in DOMAIN env
    /\ \E n \in 0..Len(env["SERVER_SOFTWARE"]) :
          /\ n = Len(DevPrefix)
          /\ \A i \in 1..n : env["SERVER_SOFTWARE"][i] = DevPrefix[i]

\* The registry reports an 'rdbms' stub: one is registered, and it is an
\* object that counts as true.
ReportsStub(registry) == "rdbms" \in DOMAIN registry /\ registry["rdbms"] # ""

\* The module the ordered rule names for an environment and a registry.
RuleChoice(env, registry) ==
    CASE InSandbox(env) -> "rdbms_mysqldb"
      [] ~InSandbox(env) /\ ReportsStub(registry) -> "rdbms_apiproxy"
      [] ~InSandbox(env) /\ ~ReportsStub(registry) -> "rdbms_googleapi"

\* C1: dbapi() returns the sandbox client in the sandbox even when an
\* 'rdbms' stub is registered, otherwise the proxy client when an 'rdbms'
\* stub is registered, otherwise the public-API client; it always returns
\* one of the three and never raises.
C1_DbapiFirstMatch ==
    ret.op = "dbapi" =>
        /\ ret.raised = "none"
        /\ ret.out \in {"rdbms_mysqldb", "rdbms_apiproxy", "rdbms_googleapi"}
        /\ ret.out = RuleChoice(environ, apiproxy)

C1_Witness ==
    /\ ret.op = "dbapi"
    /\ InSandbox(environ)
    /\ ReportsStub(apiproxy)
    /\ ret.out = "rdbms_mysqldb"

\* C2: outside the sandbox, for a URL whose query has instance=X,
\* create_connect_args returns an empty positional list and keyword
\* arguments holding every key/value of the base translation, instance = X,
\* dsn = "" and conv = CONVERTERS.
C2_ProductionArgs ==
    (/\ ret.op = "create_connect_args"
     /\ ~InSandbox(environ)
     /\ "instance" \in DOMAIN ret.url.query)
    => /\ ret.out.raised = "none"
       /\ ret.out.args = <<>>
       /\ \A k \in DOMAIN translate_connect_args(ret.url) :
             /\ k \in DOMAIN ret.out.opts
             /\ ret.out.opts[k] = translate_connect_args(ret.url)[k]
       /\ ProductionKeys \subseteq DOMAIN ret.out.opts
       /\ ret.out.opts["instance"] = ret.url.query["instance"]
       /\ ret.out.opts["dsn"] = ""
       /\ ret.out.opts["conv"] = CONVERTERS

C2_Witness ==
    /\ ret.op = "create_connect_args"
    /\ ~InSandbox(environ)
    /\ "instance" \in DOMAIN ret.url.query
    /\ ret.out.raised = "none"
    /\ ret.out.opts["instance"] = "proj:inst"
    /\ ret.out.opts["host"] = "h"

\* C3: in the sandbox create_connect_args returns an empty positional list
\* and exactly the keyword arguments of the base translation, whether or
\* not the URL carries instance.
C3_SandboxArgs ==
    (ret.op = "create_connect_args" /\ InSandbox(environ))
    => /\ ret.out.raised = "none"
       /\ ret.out.args = <<>>
       /\ ret.out.opts = translate_connect_args(ret.url)
       /\ ProductionKeys \cap DOMAIN ret.out.opts = {}

C3_Witness ==
    /\ ret.op = "create_connect_args"
    /\ InSandbox(environ)
    /\ "instance" \notin DOMAIN ret.url.query
    /\ ret.out.raised = "none"
    /\ ret.out.opts = [database |-> "db"]

\* C4 as stated: outside the sandbox a URL without instance is not rejected
\* by create_connect_args; the call completes and returns its arguments.
C4_MissingInstanceAccepted ==
    (/\ ret.op = "create_connect_args"
     /\ ~InSandbox(environ)
     /\ "instance" \notin DOMAIN ret.url.query)
    => ret.out.raised = "none"

\* C4 amended: outside the sandbox a URL without instance is rejected by
\* create_connect_args itself: the lookup url.query['instance'] raises
\* KeyError, nothing is returned, and CONVERTERS is untouched.
C4_MissingInstanceRaises ==
    (/\ ret.op = "create_connect_args"
     /\ ~InSandbox(environ)
     /\ "instance" \notin DOMAIN ret.url.query)
    => /\ ret.out = [raised |-> "KeyError"]
       /\ connArgs = Some([raised |-> "KeyError"])

C4_Witness ==
    /\ ret.op = "create_connect_args"
    /\ ~InSandbox(environ)
    /\ ret.url.query = NoQuery
    /\ ret.out.raised = "KeyError"

\* C5: get_pool_class returns NullPool for every URL, in every environment
\* and registry state, and never raises.
C5_AlwaysNullPool ==
    ret.op = "get_pool_class" => ret.raised = "none" /\ ret.out = "NullPool"

C5_Witness ==
    /\ ret.op = "get_pool_class"
    /\ "poolclass" \notin DOMAIN ret.url.query
    /\ ~InSandbox(environ)
    /\ "rdbms" \in DOMAIN apiproxy
    /\ ret.out = "NullPool"

\* value of the digits s[i..j], most significant first
RECURSIVE Decimal(_, _, _, _)
Decimal(s, i, j, acc) ==
    IF i > j THEN acc ELSE Decimal(s, i + 1, j, 10 * acc + DigitValue(s[i]))

\* s[from..] is k digits, an optional L, then the terminator
CodeShape(s, from, k, term) ==
    /\ k >= 1
    /\ from + k <= Len(s)
    /\ \A i \in from..(from + k - 1) : s[i] \in Digits
    /\ \/ s[from + k] = term
       \/ (from + k + 1 <= Len(s) /\ s[from + k] = "L"
           /\ s[from + k + 1] = term)

\* C6: for every exception string: a text that starts with digits, an
\* optional L and ':', or with '(', digits, an optional L and ',', gives
\* those digits as an integer; every other text gives None; the call never
\* raises.
C6_ExtractErrorCode ==
    ret.op = "_extract_error_code" =>
        LET s == ret.in.text
            plain == {k \in 1..Len(s) : CodeShape(s, 1, k, ":")}
            paren == {k \in 1..Len(s) :
                         s[1] = "(" /\ CodeShape(s, 2, k, ",")}
        IN  /\ ret.out.raised = "none"
            /\ \A k \in plain : ret.out.out = Some(Decimal(s, 1, k, 0))
            /\ \A k \in paren : ret.out.out = Some(Decimal(s, 2, k + 1, 0))
            /\ (plain = {} /\ paren = {}) => ret.out.out = None

\* the UTF-8 encoding of a sequence of code points
RECURSIVE Utf8Encode(_)
Utf8Encode(cps) ==
    IF cps = <<>> THEN <<>>
    ELSE LET c == Head(cps)
             enc == IF c < 128 THEN <<c>>
                    ELSE IF c < 2048
                    THEN <<192 + (c \div 64), 128 + (c % 64)>>
                    ELSE IF c < 65536
                    THEN <<224 + (c \div 4096), 128 + ((c \div 64) % 64),
                           128 + (c % 64)>>
                    ELSE <<240 + (c \div 262144),
                           128 + ((c \div 4096) % 64),
                           128 + ((c \div 64) % 64), 128 + (c % 64)>>
         IN  enc \o Utf8Encode(Tail(cps))

\* C7: a byte string valid as UTF-8 is decoded as UTF-8; one that is not
\* but is valid as Latin-1 is decoded as Latin-1; one valid as neither
\* gives "[ERROR]"; Str2Unicode never raises.
C7_Str2Unicode ==
    ret.op = "Str2Unicode" =>
        LET validUtf8 == ~unicode_utf8(ret.in).none
            validLatin1 == \A i \in 1..Len(ret.in) : ret.in[i] \in 0..255
        IN  /\ ret.raised = "none"
            /\ validUtf8 => Utf8Encode(ret.out) = ret.in
            /\ (~validUtf8 /\ validLatin1) =>
                   /\ Len(ret.out) = Len(ret.in)
                   /\ \A i \in 1..Len(ret.in) : ret.out[i] = ret.in[i]
            /\ (~validUtf8 /\ ~validLatin1) => ret.out = ErrorSentinel

C7_Witness ==
    /\ ret.op = "Str2Unicode"
    /\ ret.in = <<65, 195, 255>>
    /\ ret.out = <<65, 195, 255>>

\* C8: _is_dev_environment returns true exactly when SERVER_SOFTWARE is set
\* to a value that starts with 'Development/', false for every other value
\* and for an absent variable, and leaves the environment as it was.
C8_IsDevEnvironment ==
    ret.op = "_is_dev_environment" =>
        /\ ret.raised = "none"
        /\ ret.out = InSandbox(ret.env)
        /\ environ = ret.env

C8_Witness ==
    /\ ret.op = "_is_dev_environment"
    /\ "SERVER_SOFTWARE" \in DOMAIN environ
    /\ environ["SERVER_SOFTWARE"] = <<"x">> \o DevPrefix
    /\ ret.out = FALSE

\* C9: after any sequence of calls CONVERTERS is the table built at
\* import, and the conv handed out by a create_connect_args call outside
\* the sandbox is that table.
C9_ConvertersNeverWritten ==
    /\ CONVERTERS = ConvertersAtImport
    /\ (~connArgs.none /\ connArgs.val.raised = "none"
        /\ "conv" \in DOMAIN connArgs.val.opts)
       => connArgs.val.opts["conv"] = ConvertersAtImport

C9_Witness ==
    /\ ret.op = "_extract_error_code"
    /\ ~selected.none
    /\ ~connArgs.none
    /\ connArgs.val.raised = "none"
    /\ "conv" \in DOMAIN connArgs.val.opts
    /\ connArgs.val.opts["conv"] = ConvertersAtImport
    /\ DOMAIN CONVERTERS = DOMAIN ConvertersAtImport

\* C10: when SERVER_SOFTWARE was not written between the most recent
\* dbapi() and the most recent create_connect_args() that returned, the
\* keyword arguments hold dsn, instance and conv exactly when the selected
\* client is not the sandbox client.
C10_StableEnvironmentAgrees ==
    (/\ ~selected.none
     /\ ~connArgs.none
     /\ connArgs.val.raised = "none"
     /\ ~chgBetween)
    => /\ (ProductionKeys \subseteq DOMAIN connArgs.val.opts)
            <=> (selected.val # "rdbms_mysqldb")
       /\ (ProductionKeys \cap DOMAIN connArgs.val.opts = {})
            <=> (selected.val = "rdbms_mysqldb")

\* Both mismatched pairings have occurred after a write between the calls,
\* and the current pair, made without a write in between, agrees.
C10_Witness ==
    /\ mismatchSeen = {"sandbox client, production arguments",
                       "production client, sandbox arguments"}
    /\ ~chgBetween
    /\ ~selected.none
    /\ selected.val = "rdbms_apiproxy"
    /\ ~connArgs.none
    /\ connArgs.val.raised = "none"
    /\ ProductionKeys \subseteq DOMAIN connArgs.val.opts

====
